---- MODULE Spec2Model ----
(***************************************************************************)
(* Model of app.py: three tool functions, one process-wide chat session    *)
(* with automatic function calling, and the /chat request handler served   *)
(* by concurrent request threads.                                          *)
(***************************************************************************)
EXTENDS Integers, Sequences, FiniteSets, TLC

\* ---------------------------------------------------------------- bounds
\* /chat requests the server takes in a behaviour.
MaxRequests == 2
\* Tool calls the modelled gateway asks for in a behaviour, over all its
\* responses; one response may ask for all of them.
MaxCalls == 2

\* Request threads of the server; thread r serves user r.
Threads == {1, 2}

\* ------------------------------------------------------ program constants
\* timeout=15 of both subprocess.run calls.
TimeoutSecs == 15

NotFoundMsg == "Icarus Verilog not found. Please ensure it is installed and in your system's PATH."
FailedMsg == "Simulation failed"
TimedOutMsg == "Simulation timed out. The testbench might have an infinite loop."
DiagramFailedMsg == "Diagram generation failed. Ensure Graphviz software is installed. Error: "
NoMessageMsg == "No message provided"
InvalidImageMsg == "Invalid image file"
InternalErrorMsg == "An internal error occurred."

\* start_chat without automatic function calling (the library's default).
AutomaticFunctionCallingOff == FALSE

\* enable_automatic_function_calling of model.start_chat.
EnableAutomaticFunctionCalling == TRUE

ToolNames == {"save_code_to_file", "run_verilog_simulation", "generate_circuit_diagram"}

\* ------------------------------------------------------------ input sets
\* What the operating system gives one subprocess.run call: whether the
\* binary is on PATH, whether starting it or decoding its output faults
\* (PermissionError, UnicodeDecodeError, ...), the seconds it would run and
\* its exit status.
ProcEnvs == [found : BOOLEAN, fault : BOOLEAN, secs : {1, TimeoutSecs + 1}, status : {0, 1}]

\* subprocess.run(cmd, capture_output=True, text=True, check=True, timeout=15):
\*   exit0    the process exited with status 0 within the timeout
\*   nonzero  it exited with another status (CalledProcessError)
\*   timeout  it was killed at the timeout (TimeoutExpired)
\*   missing  the binary is not on PATH (FileNotFoundError)
\*   oserror  another exception
SubprocessRun(env) ==
    CASE ~env.found -> "missing"
      [] env.found /\ env.fault -> "oserror"
      [] env.found /\ ~env.fault /\ env.secs > TimeoutSecs -> "timeout"
      [] env.found /\ ~env.fault /\ env.secs <= TimeoutSecs /\ env.status # 0 -> "nonzero"
      [] OTHER -> "exit0"

\* On TimeoutExpired subprocess.run kills the child before it re-raises.
ProcessKilled(env) == SubprocessRun(env) = "timeout"

\* Captured stderr texts; the compiler and the runner draw from the same set.
StderrTexts == {"e1", "e2"}

\* e.stderr of CalledProcessError; the other outcomes carry no stderr that
\* the tool reads.
CapturedStderr(env) == IF SubprocessRun(env) = "nonzero" THEN StderrTexts ELSE {""}
\* Outcome of a file write or of a diagram rendering.
IoOutcomes == {"ok", "exception"}

\* The arguments of a tool call as the gateway supplies them: whether the
\* string arguments are strings (they are passed on unvalidated).
ToolArgs == [strArgs : BOOLEAN]

RECURSIVE SeqsUpTo(_, _)
SeqsUpTo(S, n) ==
    IF n = 0 THEN {<< >>}
    ELSE LET shorter == SeqsUpTo(S, n - 1)
         IN  shorter \cup {Append(s, x) : s \in {t \in shorter : Len(t) = n - 1}, x \in S}

\* The tools one gateway response asks for, in order.
CallRounds == SeqsUpTo(ToolNames, MaxCalls) \ {<< >>}

\* ----------------------------------------------------------- tool results
\* The JSON object a tool returns, as a record; absent keys are "". The
\* file system is not part of the state: a write or a rendering is its
\* outcome, and only the build artifact is followed (artifact, below).
Json(status, error, details, payload) ==
    [status |-> status, error |-> error, details |-> details, payload |-> payload]

\* What a call of a tool function ends with: a returned JSON object or an
\* exception leaving the function.
Returned(json) == [how |-> "return", json |-> json, exc |-> ""]
Raised(exc) == [how |-> "raise", json |-> Json("", "", "", ""), exc |-> exc]
NoEnd == [how |-> "none", json |-> Json("", "", "", ""), exc |-> ""]

save_code_to_file(args, io) ==
    IF args.strArgs /\ io = "ok"
    THEN Returned(Json("success", "", "", "saved"))
    ELSE Returned(Json("", IF args.strArgs THEN "OSError" ELSE "TypeError", "", ""))

generate_circuit_diagram(args, io) ==
    IF args.strArgs /\ io = "ok"
    THEN Returned(Json("success", "", "", "/static/circuit.png"))
    ELSE Returned(Json("", DiagramFailedMsg, "", ""))

\* design_files.split(), before the try block.
SplitDesignFiles(args) ==
    IF args.strArgs THEN [ok |-> TRUE, exc |-> ""] ELSE [ok |-> FALSE, exc |-> "AttributeError"]

\* The except clauses without the one for TimeoutExpired.
SimExceptNoTimeout(outcome, stderr) ==
    CASE outcome = "missing" -> Returned(Json("", NotFoundMsg, "", ""))
      [] outcome = "nonzero" -> Returned(Json("", FailedMsg, stderr, ""))
      [] OTHER -> Raised(IF outcome = "timeout" THEN "TimeoutExpired" ELSE "OSError")

\* The except clauses with a missing binary reported as a failed simulation.
SimExceptNotFoundAsFailed(outcome, stderr) ==
    CASE outcome = "missing" -> Returned(Json("", FailedMsg, "", ""))
      [] outcome = "nonzero" -> Returned(Json("", FailedMsg, stderr, ""))
      [] outcome = "timeout" -> Returned(Json("", TimedOutMsg, "", ""))
      [] OTHER -> Raised("OSError")

\* The except clauses of run_verilog_simulation, the same for both steps.
SimExcept(outcome, stderr) ==
    CASE outcome = "missing" -> Returned(Json("", NotFoundMsg, "", ""))
      [] outcome = "nonzero" -> Returned(Json("", FailedMsg, stderr, ""))
      [] outcome = "timeout" -> Returned(Json("", TimedOutMsg, "", ""))
      [] OTHER -> Raised("OSError")

\* The compile step run without check=True: its exit status is ignored.
AfterCompileUnchecked(outcome, stderr) ==
    IF outcome \in {"exit0", "nonzero"} THEN NoEnd ELSE SimExcept(outcome, stderr)

\* After the compile step: go on to the run step, or end the call.
AfterCompile(outcome, stderr) ==
    IF outcome = "exit0" THEN NoEnd ELSE SimExcept(outcome, stderr)

\* The run step reporting its stdout as the details of a failure.
AfterRunStdoutDetails(outcome, stderr, stdout) ==
    IF outcome = "exit0" THEN Returned(Json("", "", "", stdout)) ELSE SimExcept(outcome, stdout)

\* After the run step: the simulation log, or the except clauses.
AfterRun(outcome, stderr, stdout) ==
    IF outcome = "exit0" THEN Returned(Json("", "", "", stdout)) ELSE SimExcept(outcome, stderr)

\* ------------------------------------------------------------------ state
VARIABLES
    chatHistory,    \* history of the one process-wide chat session
    pc,             \* per thread: where its current request stands
    local,          \* per thread: the history list send_message works on
    pending,        \* per thread: tool calls of the round not yet executed
    results,        \* per thread: function responses of the round so far
    called,         \* tool calls the gateway has asked for so far
    served,         \* requests taken so far
    resp,           \* per thread: the last HTTP response
    gatewayFailed,  \* per thread: the gateway call of the current request raised
    toolExc,        \* per thread: the exception that left a tool function, or ""
    lastQuery,      \* the latest gateway query: who asked, the history sent and
                    \* the threads then in a tool round
    sim,            \* per thread: the run_verilog_simulation call it is in or just left
    simCount,       \* run_verilog_simulation calls started so far
    artifact        \* which call's compile step last wrote simulation_output

vars == <<chatHistory, pc, local, pending, results, called, served, resp,
          gatewayFailed, toolExc, lastQuery, sim, simCount, artifact>>

NoArtifact == 0
NoResp == [status |-> 0, reply |-> "", error |-> ""]
NoQuery == [by |-> 0, history |-> << >>, during |-> {}]
NoSim == [id |-> NoArtifact, compile |-> "notspawned", cerr |-> "", run |-> "notspawned",
          rerr |-> "", ran |-> NoArtifact, killed |-> {}, end |-> NoEnd]

\* Threads in the middle of a tool round: a tool result is outstanding.
Dispatching == {q \in Threads : pc[q] \in {"DispatchingTools", "Compiled"}}

\* generate_content(contents=history) as thread r issues it.
Query(r) == [by |-> r, history |-> local[r], during |-> Dispatching]

Turn(kind, owner, tools) == [kind |-> kind, owner |-> owner, tools |-> tools]

Init ==
    /\ chatHistory = << >>
    /\ pc = [r \in Threads |-> "Idle"]
    /\ local = [r \in Threads |-> << >>]
    /\ pending = [r \in Threads |-> << >>]
    /\ results = [r \in Threads |-> << >>]
    /\ called = 0
    /\ served = 0
    /\ resp = [r \in Threads |-> NoResp]
    /\ gatewayFailed = [r \in Threads |-> FALSE]
    /\ toolExc = [r \in Threads |-> ""]
    /\ lastQuery = NoQuery
    /\ sim = [r \in Threads |-> NoSim]
    /\ simCount = 0
    /\ artifact = NoArtifact

\* ------------------------------------------------------------ handle_chat
\* jsonify({"reply": response.text})
ReplyResponse(text) == [status |-> 200, reply |-> text, error |-> ""]

\* jsonify({"error": ...}), 400
BadRequest(msg) == [status |-> 400, reply |-> "", error |-> msg]

\* The except clause returning str(e) to the caller.
InternalErrorLeaky(exc) == [status |-> 500, reply |-> "", error |-> exc]

\* except Exception as e: the exception is printed, never returned.
InternalError(exc) == [status |-> 500, reply |-> "", error |-> InternalErrorMsg]

\* A thread takes a /chat request: the two early returns, or send_message
\* copies the chat's history and appends the user's content.
HandleChat(r) ==
    /\ pc[r] \in {"Idle", "Done", "Failed"}
    /\ served < MaxRequests
    /\ served' = served + 1
    /\ gatewayFailed' = [gatewayFailed EXCEPT ![r] = FALSE]
    /\ toolExc' = [toolExc EXCEPT ![r] = ""]
    /\ \E message \in {"", "text"}, image \in {"none", "valid", "corrupt"} :
         IF message = "" /\ image = "none"
         THEN /\ resp' = [resp EXCEPT ![r] = BadRequest(NoMessageMsg)]
              /\ pc' = [pc EXCEPT ![r] = "Idle"]
              /\ UNCHANGED local
         ELSE IF image = "corrupt"
         THEN /\ resp' = [resp EXCEPT ![r] = BadRequest(InvalidImageMsg)]
              /\ pc' = [pc EXCEPT ![r] = "Idle"]
              /\ UNCHANGED local
         ELSE /\ resp' = [resp EXCEPT ![r] = NoResp]
              /\ local' = [local EXCEPT ![r] = Append(chatHistory, Turn("user", r, << >>))]
              /\ pc' = [pc EXCEPT ![r] = "AwaitingModel"]
    /\ sim' = [sim EXCEPT ![r] = NoSim]
    /\ UNCHANGED <<chatHistory, pending, results, called, lastQuery, simCount, artifact>>

\* ------------------------------------------------ chat.send_message(content)
\* The gateway answers the query with final text: the history is stored in
\* the chat and the text goes back to the caller.
GatewayText(r) ==
    /\ pc[r] = "AwaitingModel"
    /\ lastQuery' = Query(r)
    /\ chatHistory' = Append(local[r], Turn("text", r, << >>))
    /\ resp' = [resp EXCEPT ![r] = ReplyResponse("model_text")]
    /\ pc' = [pc EXCEPT ![r] = "Done"]
    /\ sim' = [sim EXCEPT ![r] = NoSim]
    /\ UNCHANGED <<local, pending, results, called, served, gatewayFailed, toolExc,
                   simCount, artifact>>

\* The gateway answers with tool calls. With automatic function calling the
\* calls are recorded and dispatched; without it the response is stored as
\* received and response.text raises ValueError in handle_chat.
GatewayCalls(r) ==
    /\ pc[r] = "AwaitingModel"
    /\ lastQuery' = Query(r)
    /\ \E calls \in {c \in CallRounds : called + Len(c) <= MaxCalls} :
         /\ called' = called + Len(calls)
         /\ IF EnableAutomaticFunctionCalling
            THEN /\ local' = [local EXCEPT ![r] = Append(@, Turn("call", r, calls))]
                 /\ pending' = [pending EXCEPT ![r] = calls]
                 /\ results' = [results EXCEPT ![r] = << >>]
                 /\ pc' = [pc EXCEPT ![r] = "DispatchingTools"]
                 /\ UNCHANGED <<chatHistory, resp>>
            ELSE /\ chatHistory' = Append(local[r], Turn("call", r, calls))
                 /\ resp' = [resp EXCEPT ![r] = InternalError("ValueError")]
                 /\ pc' = [pc EXCEPT ![r] = "Failed"]
                 /\ UNCHANGED <<local, pending, results>>
    /\ sim' = [sim EXCEPT ![r] = NoSim]
    /\ UNCHANGED <<served, gatewayFailed, toolExc, simCount, artifact>>

\* The gateway call raises: nothing is stored in the chat, handle_chat
\* answers with the generic error.
GatewayFails(r) ==
    /\ pc[r] = "AwaitingModel"
    /\ lastQuery' = Query(r)
    /\ gatewayFailed' = [gatewayFailed EXCEPT ![r] = TRUE]
    /\ resp' = [resp EXCEPT ![r] = InternalError("GatewayError")]
    /\ pc' = [pc EXCEPT ![r] = "Failed"]
    /\ sim' = [sim EXCEPT ![r] = NoSim]
    /\ UNCHANGED <<chatHistory, local, pending, results, called, served, toolExc,
                   simCount, artifact>>

\* An exception leaves a tool function: it leaves send_message too and
\* reaches the except clause of handle_chat; the history the request worked
\* on is dropped.
ToolRaised(r, end) ==
    /\ pc' = [pc EXCEPT ![r] = "Failed"]
    /\ resp' = [resp EXCEPT ![r] = InternalError(end.exc)]
    /\ toolExc' = [toolExc EXCEPT ![r] = end.exc]
    /\ pending' = [pending EXCEPT ![r] = << >>]
    /\ results' = [results EXCEPT ![r] = << >>]
    /\ UNCHANGED local

\* A tool function returns its result: the function response is collected,
\* and after the round's last call the responses are appended to the
\* history as one turn and the gateway is asked again.
ToolReturned(r) ==
    LET res == Append(results[r], Head(pending[r]))
        rest == Tail(pending[r])
    IN  /\ pending' = [pending EXCEPT ![r] = rest]
        /\ IF rest = << >>
           THEN /\ local' = [local EXCEPT ![r] = Append(@, Turn("result", r, res))]
                /\ results' = [results EXCEPT ![r] = << >>]
                /\ pc' = [pc EXCEPT ![r] = "AwaitingModel"]
           ELSE /\ results' = [results EXCEPT ![r] = res]
                /\ pc' = [pc EXCEPT ![r] = "DispatchingTools"]
                /\ UNCHANGED local
        /\ UNCHANGED <<resp, toolExc>>

\* A tool function has ended, one way or the other.
Complete(r, end) ==
    IF end.how = "raise" THEN ToolRaised(r, end) ELSE ToolReturned(r)

NextCallIs(r, tool) ==
    /\ pc[r] = "DispatchingTools"
    /\ pending[r] # << >>
    /\ Head(pending[r]) = tool

ExecSave(r) ==
    /\ NextCallIs(r, "save_code_to_file")
    /\ \E args \in ToolArgs, io \in IoOutcomes : Complete(r, save_code_to_file(args, io))
    /\ sim' = [sim EXCEPT ![r] = NoSim]
    /\ UNCHANGED <<chatHistory, called, served, gatewayFailed, lastQuery,
                   simCount, artifact>>

ExecDiagram(r) ==
    /\ NextCallIs(r, "generate_circuit_diagram")
    /\ \E args \in ToolArgs, io \in IoOutcomes : Complete(r, generate_circuit_diagram(args, io))
    /\ sim' = [sim EXCEPT ![r] = NoSim]
    /\ UNCHANGED <<chatHistory, called, served, gatewayFailed, lastQuery,
                   simCount, artifact>>

\* run_verilog_simulation up to the end of the compile step.
SimCompile(r) ==
    /\ NextCallIs(r, "run_verilog_simulation")
    /\ simCount' = simCount + 1
    /\ \E args \in ToolArgs :
       LET split == SplitDesignFiles(args)
           id == simCount + 1
       IN  IF ~split.ok
           THEN /\ sim' = [sim EXCEPT ![r] = [NoSim EXCEPT !.id = id, !.end = Raised(split.exc)]]
                /\ Complete(r, Raised(split.exc))
                /\ UNCHANGED artifact
           ELSE \E env \in ProcEnvs : \E err \in CapturedStderr(env) :
                  LET outcome == SubprocessRun(env)
                      end == AfterCompile(outcome, err)
                  IN  /\ sim' = [sim EXCEPT ![r] =
                                   [NoSim EXCEPT !.id = id, !.compile = outcome, !.cerr = err,
                                                 !.killed = IF ProcessKilled(env) THEN {"compile"} ELSE {},
                                                 !.end = end]]
                      /\ artifact' = IF outcome = "exit0" THEN id ELSE artifact
                      /\ IF end.how = "none"
                         THEN /\ pc' = [pc EXCEPT ![r] = "Compiled"]
                              /\ UNCHANGED <<local, pending, results, resp, toolExc>>
                         ELSE Complete(r, end)
    /\ UNCHANGED <<chatHistory, called, served, gatewayFailed, lastQuery>>

\* The run step of run_verilog_simulation: vvp executes whatever file is
\* named simulation_output when it starts.
SimRun(r) ==
    /\ pc[r] = "Compiled"
    /\ \E env \in ProcEnvs : \E err \in CapturedStderr(env) :
         LET outcome == SubprocessRun(env)
             end == AfterRun(outcome, err, "log")
         IN  /\ sim' = [sim EXCEPT ![r] =
                          [@ EXCEPT !.run = outcome, !.rerr = err,
                                    !.ran = IF outcome \in {"exit0", "nonzero", "timeout"}
                                            THEN artifact ELSE NoArtifact,
                                    !.killed = IF ProcessKilled(env) THEN {"run"} ELSE {},
                                    !.end = end]]
             /\ Complete(r, end)
    /\ UNCHANGED <<chatHistory, called, served, gatewayFailed, lastQuery, simCount, artifact>>

Next ==
    \E r \in Threads :
        \/ HandleChat(r)
        \/ GatewayText(r)
        \/ GatewayCalls(r)
        \/ GatewayFails(r)
        \/ ExecSave(r)
        \/ ExecDiagram(r)
        \/ SimCompile(r)
        \/ SimRun(r)

Spec == Init /\ [][Next]_vars

\* ---------------------------------------------------------------- claims
Paired(h) ==
    \A i \in 1..Len(h) :
        /\ h[i].kind = "call" =>
              /\ i < Len(h)
              /\ h[i + 1].kind = "result"
              /\ h[i + 1].tools = h[i].tools
              /\ h[i + 1].owner = h[i].owner
        /\ h[i].kind = "result" =>
              /\ i > 1
              /\ h[i - 1].kind = "call"
              /\ h[i - 1].tools = h[i].tools

C2_CompileFailureSkipsRun ==
    \A r \in Threads :
        /\ sim[r].compile = "nonzero" =>
              /\ sim[r].cerr \in StderrTexts
              /\ sim[r].end = Returned(Json("", FailedMsg, sim[r].cerr, ""))
              /\ sim[r].run = "notspawned"
              /\ sim[r].ran = NoArtifact
        /\ sim[r].run # "notspawned" => sim[r].compile = "exit0"

C2_Witness ==
    \E r, q \in Threads :
        /\ sim[r].compile = "nonzero" /\ sim[r].end.how = "return"
        /\ sim[q].run # "notspawned"

\* C3 as stated: a run step that exits non-zero ends the call with a failure
\* carrying the run step's stderr, and the kind of that failure differs from
\* the kind returned for a compile step that exits non-zero.
C3_KindIdentifiesStep ==
    /\ \A r \in Threads :
          sim[r].run = "nonzero" =>
              /\ sim[r].end.how = "return"
              /\ sim[r].end.json.details = sim[r].rerr
    /\ \A r, q \in Threads :
          sim[r].compile = "nonzero" /\ sim[q].run = "nonzero" =>
              sim[r].end.json.error # sim[q].end.json.error

\* C3 as amended: a run step that exits non-zero, after a compile step that
\* exited with zero, ends the call with the failure result carrying the run
\* step's stderr; its kind is the same "Simulation failed" that a failed
\* compile step returns.
C3_RunFailureReported ==
    /\ \A r \in Threads :
          sim[r].run = "nonzero" =>
              /\ sim[r].compile = "exit0"
              /\ sim[r].rerr \in StderrTexts
              /\ sim[r].end = Returned(Json("", FailedMsg, sim[r].rerr, ""))
    /\ \A r, q \in Threads :
          sim[r].compile = "nonzero" /\ sim[q].run = "nonzero" =>
              sim[r].end.json.error = sim[q].end.json.error

C3_Witness ==
    \E r, q \in Threads :
        /\ sim[r].compile = "nonzero"
        /\ sim[q].run = "nonzero"
        /\ sim[r].end.json.details # sim[q].end.json.details

\* C4: a step that exceeds the 15 second timeout is killed and the call
\* returns the timeout failure, never a success, a failed simulation or an
\* exception; after a compile step that timed out no run step is spawned.
C4_TimeoutReported ==
    \A r \in Threads :
        /\ sim[r].compile = "timeout" =>
              /\ sim[r].end = Returned(Json("", TimedOutMsg, "", ""))
              /\ sim[r].killed = {"compile"}
              /\ sim[r].run = "notspawned"
        /\ sim[r].run = "timeout" =>
              /\ sim[r].end = Returned(Json("", TimedOutMsg, "", ""))
              /\ sim[r].killed = {"run"}
        /\ sim[r].end.how = "return" /\ sim[r].end.json.error = TimedOutMsg =>
              "timeout" \in {sim[r].compile, sim[r].run}

C4_Witness ==
    \E r, q \in Threads : sim[r].compile = "timeout" /\ sim[q].run = "timeout"

\* C5: a missing compiler or runner binary ends the call with the
\* toolchain-unavailable failure, which no other outcome returns.
C5_ToolchainUnavailable ==
    \A r \in Threads :
        /\ sim[r].compile = "missing" \/ sim[r].run = "missing" =>
              sim[r].end = Returned(Json("", NotFoundMsg, "", ""))
        /\ sim[r].compile = "missing" => sim[r].run = "notspawned"
        /\ sim[r].end.how = "return" /\ sim[r].end.json.error = NotFoundMsg =>
              "missing" \in {sim[r].compile, sim[r].run}

C5_Witness ==
    \E r, q \in Threads : sim[r].compile = "missing" /\ sim[q].run = "missing"

\* C6: no exception ever leaves a tool function, so no request fails
\* because of a tool.
C6_ToolsNeverRaise ==
    \A r \in Threads : toolExc[r] = "" /\ sim[r].end.how # "raise"

\* C7: the history of every gateway query holds only turns of the user the
\* query is issued for, and no query is issued while a tool result of
\* another user's conversation is outstanding on the same chat.
C7_IndependentHistories ==
    /\ \A i \in 1..Len(lastQuery.history) : lastQuery.history[i].owner = lastQuery.by
    /\ lastQuery.during \ {lastQuery.by} = {}

\* C8: the artifact a run step executes is the one written by the compile
\* step of the same call.
C8_OwnArtifact ==
    \A r \in Threads : sim[r].run \in {"exit0", "nonzero", "timeout"} => sim[r].ran = sim[r].id

\* C9 as stated: every response is the model's final text or the generic
\* internal error message.
C9_OnlyReplyOrGeneric ==
    \A r \in Threads :
        resp[r] # NoResp =>
            \/ resp[r].status = 200 /\ resp[r].reply = "model_text" /\ resp[r].error = ""
            \/ resp[r].status = 500 /\ resp[r].reply = "" /\ resp[r].error = InternalErrorMsg

\* C9 as amended: every response is the model's final text, the generic
\* internal error message, or one of the two fixed request-validation
\* messages; no tool result and no exception text is in a response.
C9_FixedResponses ==
    \A r \in Threads :
        resp[r] # NoResp =>
            \/ resp[r].status = 200 /\ resp[r].reply = "model_text" /\ resp[r].error = ""
            \/ resp[r].status = 500 /\ resp[r].reply = "" /\ resp[r].error = InternalErrorMsg
            \/ resp[r].status = 400 /\ resp[r].reply = ""
                  /\ resp[r].error \in {NoMessageMsg, InvalidImageMsg}

\* One request rejected as invalid, another failed by an exception.
C9_Witness ==
    \E r, q \in Threads :
        /\ resp[r].status = 400
        /\ resp[q].status = 500 /\ (toolExc[q] # "" \/ gatewayFailed[q])

\* C10: a request ends as Failed only when the gateway call failed, never
\* after a tool failure alone, and ends as Done only with the model's text
\* as the reply.
C10_FailedOnlyByGateway ==
    \A r \in Threads :
        /\ pc[r] = "Failed" => gatewayFailed[r]
        /\ pc[r] = "Done" => resp[r].status = 200

====
